---- MODULE Spec2Model ----
(***************************************************************************)
(* Class-based resource handling of the CRI server (pkg/cri/server):       *)
(* validation of the structured class assignments of a pod sandbox or a    *)
(* container, resolution of the RDT and blockio class with the annotation  *)
(* fallback, translation into spec options, discovery of the available     *)
(* classes, and the import of the network classes from the CNI config.     *)
(***************************************************************************)
EXTENDS Naturals, Sequences, FiniteSets, TLC

\* ------------------------------------------------------------------ bounds

\* Most structured assignments in one classes map of a request.
MaxAssignments == 2

\* --------------------------------------------------------------- constants

QoSResourceNet == "net"
QoSResourceRdt == "rdt"
QoSResourceBlockio == "blockio"
ClassResourceRdt == "rdt"
ClassResourceBlockio == "blockio"

\* Class names the RDT / blockio configuration files may define.
LegacyClassNames == {"gold", "silver"}

\* Class names a CNI configuration may define under "qos".
NetClassNames == {"gold", "silver"}

\* Resource and class names a container request may carry.
ContainerResourceNames == {"rdt", "blockio", "dummy-2", "bogus"}
ContainerClassNames == {"", "gold", "nonexistent"}

\* Resource and class names a pod sandbox request may carry.
SandboxResourceNames == {"net", "podres-1", "rdt", "bogus"}
SandboxClassNames == {"", "gold", "qos-a"}

Range(s) == {s[i] : i \in DOMAIN s}

\* The nil / empty map.
EmptyMap == [x \in {} |-> x]

createClassInfos(names) ==
    [i \in 1..Len(names) |-> [Name |-> names[i], Capacity |-> i - 1]]

\* The dummy resources of the init() functions.
dummyPodQoSResourcesInfo ==
    << [Name |-> "podres-1", Mutable |-> FALSE,
        Classes |-> createClassInfos(<<"qos-a", "qos-b", "qos-c", "qos-d">>)],
       [Name |-> "podres-2", Mutable |-> FALSE,
        Classes |-> createClassInfos(<<"cls-1", "cls-2", "cls-3", "cls-4", "cls-5">>)] >>

dummyContainerQoSResourcesInfo ==
    << [Name |-> "dummy-1", Mutable |-> FALSE,
        Classes |-> createClassInfos(<<"class-a", "class-b", "class-c", "class-d">>)],
       [Name |-> "dummy-2", Mutable |-> FALSE,
        Classes |-> createClassInfos(<<"platinum", "gold", "silver", "bronze">>)] >>

dummyPodClassResourcesInfo ==
    << [Name |-> "podres-1", Mutable |-> FALSE,
        Classes |-> createClassInfos(<<"qos-a", "qos-b", "qos-c", "qos-d">>)],
       [Name |-> "podres-2", Mutable |-> FALSE,
        Classes |-> createClassInfos(<<"cls-1", "cls-2", "cls-3", "cls-4", "cls-5">>)] >>

dummyContainerClassResourcesInfo ==
    << [Name |-> "dummy-1", Mutable |-> FALSE,
        Classes |-> createClassInfos(<<"class-a", "class-b", "class-c", "class-d">>)],
       [Name |-> "dummy-2", Mutable |-> FALSE,
        Classes |-> createClassInfos(<<"platinum", "gold", "silver", "bronze">>)] >>

\* map[string]map[string]struct{}: resource name -> set of class names.
dummuGen(in) ==
    [n \in {in[i].Name : i \in DOMAIN in} |->
        UNION { {c.Name : c \in Range(in[i].Classes)} :
                  i \in {j \in DOMAIN in : in[j].Name = n} }]

dummyPodQoSResources == dummuGen(dummyPodQoSResourcesInfo)
dummyContainerQoSResources == dummuGen(dummyContainerQoSResourcesInfo)
dummyPodClassResources == dummuGen(dummyPodClassResourcesInfo)
dummyContainerClassResources == dummuGen(dummyContainerClassResourcesInfo)

\* ------------------------------------------------------------------- state

VARIABLES
    rdtEnabled,                     \* tasks.RdtEnabled()
    rdtClasses,                     \* the classes rdt.GetClass() knows
    blockioEnabled,                 \* tasks.BlockIOEnabled()
    blockioClasses,                 \* blockio.GetClasses()
    IgnoreRdtNotEnabledErrors,      \* c.config.ContainerdConfig
    IgnoreBlockIONotEnabledErrors,  \* c.config.ContainerdConfig
    cniQoSResource,                 \* map[string]CniQoSClass
    update,                         \* the last updateCniQoSResources call
    call                            \* the request being served, or the last one served

vars == << rdtEnabled, rdtClasses, blockioEnabled, blockioClasses,
           IgnoreRdtNotEnabledErrors, IgnoreBlockIONotEnabledErrors,
           cniQoSResource, update, call >>

static == << rdtEnabled, rdtClasses, blockioEnabled, blockioClasses,
             IgnoreRdtNotEnabledErrors, IgnoreBlockIONotEnabledErrors >>

\* ---------------------------------------------------------------- requests

\* The classes maps (map[string]string) with at most n entries.
ClassMaps(names, classes, n) ==
    UNION {[S -> classes] : S \in {T \in SUBSET names : Cardinality(T) <= n}}

\* What the annotations of the pod and the container say about a legacy
\* resource: nothing (""), a class, or something the parser rejects.
InvalidAnnotation == "!invalid"
Annotations == {"", "silver", InvalidAnnotation}

\* The orders in which a range statement may visit the keys of a map.
RangeOrders(m) ==
    {o \in [1..Cardinality(DOMAIN m) -> DOMAIN m] :
        \A i, j \in DOMAIN o : i # j => o[i] # o[j]}

\* The orders in which a library may list a set of class names.
Listings(S) ==
    {o \in [1..Cardinality(S) -> S] : \A i, j \in DOMAIN o : i # j => o[i] # o[j]}

\* ------------------------------------------------------------------ errors

NoError == [kind |-> "", resource |-> "", class |-> ""]
Errorf(kind, r, c) == [kind |-> kind, resource |-> r, class |-> c]

\* A slip: "return specOpts, err", the options collected so far with the error.
ReturnOptsWithErr(specOpts, err) == [opts |-> specOpts, err |-> err]

\* return nil, err
ReturnNilErr(specOpts, err) == [opts |-> << >>, err |-> err]

\* return specOpts, nil
ReturnOpts(specOpts) == [opts |-> specOpts, err |-> NoError]

\* -------------------------------------------------- validation of the maps

\* A slip: the default case skips a resource it does not know.
RangeBodySkipUnknown(r, c, builtin, dummy) ==
    IF r \in builtin
    THEN IF c = "" THEN Errorf("EmptyClassName", r, c) ELSE NoError
    ELSE IF r \notin DOMAIN dummy THEN NoError
         ELSE IF c \notin dummy[r] THEN Errorf("UnknownClass", r, c)
         ELSE IF c = "" THEN Errorf("EmptyClassName", r, c)
         ELSE NoError

\* One iteration of "for r, c := range classes": the error it returns, or
\* NoError when the loop goes on.  builtin: the resources of the switch
\* cases; dummy: the registry the default case consults.
RangeBody(r, c, builtin, dummy) ==
    IF r \in builtin
    THEN IF c = "" THEN Errorf("EmptyClassName", r, c) ELSE NoError
    ELSE IF r \notin DOMAIN dummy THEN Errorf("UnknownDomain", r, c)
         ELSE IF c \notin dummy[r] THEN Errorf("UnknownClass", r, c)
         ELSE IF c = "" THEN Errorf("EmptyClassName", r, c)
         ELSE NoError

\* The range loop over a classes map, visited in the given order.
RECURSIVE RangeClasses(_, _, _, _, _)
RangeClasses(classes, order, i, builtin, dummy) ==
    IF i > Len(order) THEN NoError
    ELSE LET err == RangeBody(order[i], classes[order[i]], builtin, dummy)
         IN IF err # NoError THEN err
            ELSE RangeClasses(classes, order, i + 1, builtin, dummy)

generateSandboxQoSResourceSpecOpts(config, order) ==
    LET err == RangeClasses(config.qos, order, 1, {QoSResourceNet},
                            dummyPodQoSResources)
    IN IF err # NoError THEN ReturnNilErr(<< >>, err) ELSE ReturnOpts(<< >>)

generateSandboxClassResourceSpecOpts(config, order) ==
    LET err == RangeClasses(config.class, order, 1, {}, dummyPodClassResources)
    IN IF err # NoError THEN ReturnNilErr(<< >>, err) ELSE ReturnOpts(<< >>)

\* generateCniQoSResourceOpts against the registry it reads.
CniQoSResourceOpts(registry, config) ==
    LET classes == config.qos
    IN IF QoSResourceNet \in DOMAIN classes
       THEN LET netCls == classes[QoSResourceNet]
            IN IF netCls \notin DOMAIN registry
               THEN ReturnNilErr(<< >>, Errorf("UnknownClass", QoSResourceNet, netCls))
               ELSE IF registry[netCls].BandWidth # "nil"
                    THEN ReturnOpts(<< <<"bandwidth", registry[netCls].BandWidth>> >>)
                    ELSE ReturnOpts(<< >>)
       ELSE ReturnOpts(<< >>)

\* A slip: the class is translated from the registry as it was before the
\* last reload of the CNI configuration.
generateCniQoSResourceOptsStale(config) ==
    CniQoSResourceOpts(IF update.called THEN update.before ELSE cniQoSResource,
                       config)

generateCniQoSResourceOpts(config) == CniQoSResourceOpts(cniQoSResource, config)

\* ------------------------------------------------- RDT and blockio classes

\* rdt.ContainerClassFromAnnotations / blockio.ContainerClassFromAnnotations
ContainerClassFromAnnotations(annotation) ==
    IF annotation = InvalidAnnotation
    THEN [cls |-> "", err |-> Errorf("AnnotationError", "", annotation)]
    ELSE [cls |-> annotation, err |-> NoError]

\* A slip: RDT support is checked before the class is known to be set.
getContainerRdtClassEnabledFirst(config) ==
    LET classes == config.class
        ok == ClassResourceRdt \in DOMAIN classes
        fromAnn == ContainerClassFromAnnotations(config.rdtAnnotation)
        cls == IF ok THEN classes[ClassResourceRdt] ELSE fromAnn.cls
    IN IF ~ok /\ fromAnn.err # NoError THEN [cls |-> "", err |-> fromAnn.err]
       ELSE IF ~rdtEnabled
            THEN [cls |-> "", err |-> Errorf("DomainDisabled", "rdt", cls)]
       ELSE IF cls # "" /\ cls \notin rdtClasses
            THEN [cls |-> "", err |-> Errorf("UnknownClass", "rdt", cls)]
       ELSE [cls |-> cls, err |-> NoError]

getContainerRdtClass(config) ==
    LET classes == config.class
        ok == ClassResourceRdt \in DOMAIN classes
        fromAnn == ContainerClassFromAnnotations(config.rdtAnnotation)
        cls == IF ok THEN classes[ClassResourceRdt] ELSE fromAnn.cls
    IN IF ~ok /\ fromAnn.err # NoError THEN [cls |-> "", err |-> fromAnn.err]
       ELSE IF cls # "" /\ ~rdtEnabled
            THEN [cls |-> "", err |-> Errorf("DomainDisabled", "rdt", cls)]
       ELSE IF cls # "" /\ cls \notin rdtClasses
            THEN [cls |-> "", err |-> Errorf("UnknownClass", "rdt", cls)]
       ELSE [cls |-> cls, err |-> NoError]

classExists(cls) == \E c \in blockioClasses : cls = c

\* A slip: the class is looked up before blockio support is checked.
getContainerBlockioClassExistsFirst(config) ==
    LET classes == config.qos
        ok == QoSResourceBlockio \in DOMAIN classes
        fromAnn == ContainerClassFromAnnotations(config.blockioAnnotation)
        cls == IF ok THEN classes[QoSResourceBlockio] ELSE fromAnn.cls
    IN IF ~ok /\ fromAnn.err # NoError THEN [cls |-> "", err |-> fromAnn.err]
       ELSE IF cls # "" /\ ~classExists(cls)
            THEN [cls |-> "", err |-> Errorf("UnknownClass", "blockio", cls)]
       ELSE IF cls # "" /\ ~blockioEnabled
            THEN [cls |-> "", err |-> Errorf("DomainDisabled", "blockio", cls)]
       ELSE [cls |-> cls, err |-> NoError]

getContainerBlockioClass(config) ==
    LET classes == config.qos
        ok == QoSResourceBlockio \in DOMAIN classes
        fromAnn == ContainerClassFromAnnotations(config.blockioAnnotation)
        cls == IF ok THEN classes[QoSResourceBlockio] ELSE fromAnn.cls
    IN IF ~ok /\ fromAnn.err # NoError THEN [cls |-> "", err |-> fromAnn.err]
       ELSE IF cls # "" /\ ~blockioEnabled
            THEN [cls |-> "", err |-> Errorf("DomainDisabled", "blockio", cls)]
       ELSE IF cls # "" /\ ~classExists(cls)
            THEN [cls |-> "", err |-> Errorf("UnknownClass", "blockio", cls)]
       ELSE [cls |-> cls, err |-> NoError]

\* blockio.OciLinuxBlockIO: ociFails is the answer of the library.
blockIOToLinuxOci(className, ociFails) ==
    IF ociFails
    THEN [blockio |-> "", err |-> Errorf("TranslationError", "blockio", className)]
    ELSE [blockio |-> className, err |-> NoError]

\* "Handle RDT": the options after it, or the error returned.
HandleRdt(specOpts, config) ==
    LET r == getContainerRdtClass(config)
    IN IF r.err # NoError
       THEN IF ~rdtEnabled /\ IgnoreRdtNotEnabledErrors
            THEN ReturnOpts(specOpts)
            ELSE ReturnNilErr(specOpts, r.err)
       ELSE IF r.cls # "" THEN ReturnOpts(Append(specOpts, <<"rdt", r.cls>>))
       ELSE ReturnOpts(specOpts)

\* "Handle Block IO": the options after it, or the error returned.
HandleBlockIO(specOpts, config, ociFails) ==
    LET r == getContainerBlockioClass(config)
    IN IF r.err # NoError
       THEN IF ~blockioEnabled /\ IgnoreBlockIONotEnabledErrors
            THEN ReturnOpts(specOpts)
            ELSE ReturnNilErr(specOpts, r.err)
       ELSE IF r.cls # ""
            THEN LET t == blockIOToLinuxOci(r.cls, ociFails)
                 IN IF t.err = NoError
                    THEN ReturnOpts(Append(specOpts, <<"blockio", t.blockio>>))
                    ELSE ReturnNilErr(specOpts, t.err)
       ELSE ReturnOpts(specOpts)

generateContainerQoSResourceSpecOpts(config, order, ociFails) ==
    LET err == RangeClasses(config.qos, order, 1,
                            {QoSResourceRdt, QoSResourceBlockio},
                            dummyContainerQoSResources)
    IN IF err # NoError THEN ReturnNilErr(<< >>, err)
       ELSE LET afterRdt == HandleRdt(<< >>, config)
            IN IF afterRdt.err # NoError THEN afterRdt
               ELSE HandleBlockIO(afterRdt.opts, config, ociFails)

generateContainerClassResourceSpecOpts(config, order, ociFails) ==
    LET err == RangeClasses(config.class, order, 1,
                            {ClassResourceRdt, ClassResourceBlockio},
                            dummyContainerClassResources)
    IN IF err # NoError THEN ReturnNilErr(<< >>, err)
       ELSE LET afterRdt == HandleRdt(<< >>, config)
            IN IF afterRdt.err # NoError THEN afterRdt
               ELSE HandleBlockIO(afterRdt.opts, config, ociFails)

\* --------------------------------------------------------------- discovery

\* The entry of a resource with the given classes, listed in the given order.
ResourceInfo(name, listing) ==
    [Name |-> name, Mutable |-> FALSE, Classes |-> createClassInfos(listing)]

\* The body shared by GetContainerQoSResourcesInfo and
\* GetContainerClassResourcesInfo; the listings are what tasks.GetRdtClasses()
\* and tasks.GetBlockioClasses() return.
ContainerResourcesInfo(rdtListing, blockioListing, dummy) ==
    (IF Len(rdtListing) > 0 THEN << ResourceInfo("rdt", rdtListing) >> ELSE << >>)
    \o (IF Len(blockioListing) > 0
        THEN << ResourceInfo("blockio", blockioListing) >> ELSE << >>)
    \o dummy

GetContainerQoSResourcesInfo(rdtListing, blockioListing) ==
    ContainerResourcesInfo(rdtListing, blockioListing, dummyContainerQoSResourcesInfo)

GetContainerClassResourcesInfo(rdtListing, blockioListing) ==
    ContainerResourcesInfo(rdtListing, blockioListing, dummyContainerClassResourcesInfo)

GetPodClassResourcesInfo == dummyPodClassResourcesInfo

\* The classes GetPodQoSResourcesInfo collects by ranging over the registry.
NetClassInfos(registry, order) ==
    [i \in 1..Len(order) |->
        [Name |-> order[i], Capacity |-> registry[order[i]].Capacity]]

\* GetPodQoSResourcesInfo when nothing writes the registry during the call.
PodQoSResourcesInfo(registry, order) ==
    (IF Cardinality(DOMAIN registry) > 0
     THEN << [Name |-> QoSResourceNet, Mutable |-> FALSE,
              Classes |-> NetClassInfos(registry, order)] >>
     ELSE << >>)
    \o dummyPodQoSResourcesInfo

\* ------------------------------------------------------- the CNI importer

\* json.Unmarshal of the configuration source into the anonymous struct.
Unmarshal(source) ==
    IF source.syntax # "object"
    THEN [Qos |-> EmptyMap, err |-> Errorf("ConfigParseError", "", source.syntax)]
    ELSE [Qos |-> IF source.hasQos THEN source.qos ELSE EmptyMap, err |-> NoError]

getCniQoSResources(netplugin) ==
    IF netplugin.isNil
    THEN [qos |-> EmptyMap, err |-> Errorf("NilPlugin", "", "")]
    ELSE IF Len(netplugin.Networks) < 2
    THEN [qos |-> EmptyMap, err |-> Errorf("NoNetworks", "", "")]
    ELSE LET tmp == Unmarshal(netplugin.Networks[2].Source)
         IN IF tmp.err # NoError
            THEN [qos |-> EmptyMap, err |-> tmp.err]
            ELSE [qos |-> tmp.Qos, err |-> NoError]

\* A slip: the registry is assigned before the error is looked at.
updateCniQoSResourcesAssignFirst(registry, netplugin) ==
    LET r == getCniQoSResources(netplugin)
    IN [registry |-> r.qos, err |-> r.err]

\* A slip: the parsed classes are merged into the registry, whose other
\* classes stay.
updateCniQoSResourcesMerge(registry, netplugin) ==
    LET r == getCniQoSResources(netplugin)
    IN IF r.err # NoError
       THEN [registry |-> registry, err |-> r.err]
       ELSE [registry |-> [n \in DOMAIN registry \cup DOMAIN r.qos |->
                             IF n \in DOMAIN r.qos THEN r.qos[n] ELSE registry[n]],
             err |-> NoError]

\* updateCniQoSResources: the registry after the call and the error returned.
updateCniQoSResources(registry, netplugin) ==
    LET r == getCniQoSResources(netplugin)
    IN IF r.err # NoError
       THEN [registry |-> registry, err |-> r.err]
       ELSE [registry |-> r.qos, err |-> NoError]

\* ------------------------------------------------------------------ inputs

NoConfig == [qos |-> EmptyMap, class |-> EmptyMap, rdtAnnotation |-> "",
             blockioAnnotation |-> ""]

\* The requests to generateContainerQoSResourceSpecOpts: of the class
\* resources it reads the RDT assignment alone.
ContainerQoSConfigs ==
    { [qos |-> q, class |-> k, rdtAnnotation |-> ra, blockioAnnotation |-> ba] :
        q \in ClassMaps(ContainerResourceNames, ContainerClassNames, MaxAssignments),
        k \in ClassMaps({ClassResourceRdt}, ContainerClassNames, 1),
        ra \in Annotations, ba \in Annotations }

\* The requests to generateContainerClassResourceSpecOpts: of the QoS
\* resources it reads the blockio assignment alone.
ContainerClassConfigs ==
    { [qos |-> q, class |-> k, rdtAnnotation |-> ra, blockioAnnotation |-> ba] :
        q \in ClassMaps({QoSResourceBlockio}, ContainerClassNames, 1),
        k \in ClassMaps(ContainerResourceNames, ContainerClassNames, MaxAssignments),
        ra \in Annotations, ba \in Annotations }

SandboxQoSConfigs ==
    { [NoConfig EXCEPT !.qos = q] :
        q \in ClassMaps(SandboxResourceNames, SandboxClassNames, MaxAssignments) }

SandboxClassConfigs ==
    { [NoConfig EXCEPT !.class = k] :
        k \in ClassMaps(SandboxResourceNames, SandboxClassNames, MaxAssignments) }

\* A class of the "qos" object of a CNI configuration.
CniQoSClass == [Capacity : {1}, BandWidth : {"nil", "10M"}]

\* The configuration sources of a network: not JSON, an object of the wrong
\* shape, or an object with or without the "qos" key.
ConfSources ==
    { [syntax |-> s, hasQos |-> FALSE, qos |-> EmptyMap] :
        s \in {"malformed", "mistyped", "object"} }
    \cup { [syntax |-> "object", hasQos |-> TRUE, qos |-> q] :
             q \in UNION {[S -> CniQoSClass] : S \in SUBSET NetClassNames} }

Loopback == [syntax |-> "object", hasQos |-> FALSE, qos |-> EmptyMap]

\* The plugins given to updateCniQoSResources.
NetPlugins ==
    { [isNil |-> TRUE, Networks |-> << >>],
      [isNil |-> FALSE, Networks |-> << >>],
      [isNil |-> FALSE, Networks |-> << [Source |-> Loopback] >>] }
    \cup { [isNil |-> FALSE,
            Networks |-> << [Source |-> Loopback], [Source |-> s] >>] :
             s \in ConfSources }

\* ------------------------------------------------------------------ actions

Idle == [op |-> "idle", pc |-> "idle", config |-> NoConfig, ociFails |-> FALSE,
         out |-> ReturnOpts(<< >>), info |-> << >>, seen |-> {}]

NoUpdate == [netplugin |-> [isNil |-> TRUE, Networks |-> << >>],
             before |-> EmptyMap, err |-> NoError, called |-> FALSE]

\* A served request.
Served(op, config, ociFails, out) ==
    [Idle EXCEPT !.op = op, !.pc = "done", !.config = config,
                 !.ociFails = ociFails, !.out = out]

\* The states of a legacy resource after the plugins are initialised: a
\* resource that is not enabled has no configuration, hence no classes.
LegacyStates == {<<FALSE, {}>>} \cup ({TRUE} \X SUBSET LegacyClassNames)

Init ==
    /\ \E s \in LegacyStates : rdtEnabled = s[1] /\ rdtClasses = s[2]
    /\ \E s \in LegacyStates : blockioEnabled = s[1] /\ blockioClasses = s[2]
    /\ IgnoreRdtNotEnabledErrors \in BOOLEAN
    /\ IgnoreBlockIONotEnabledErrors \in BOOLEAN
    /\ cniQoSResource = EmptyMap
    /\ update = NoUpdate
    /\ call = Idle

GenerateContainerQoS ==
    /\ call.pc = "idle"
    /\ \E config \in ContainerQoSConfigs, ociFails \in BOOLEAN :
         \E order \in RangeOrders(config.qos) :
            call' = Served("generateContainerQoSResourceSpecOpts", config, ociFails,
                        generateContainerQoSResourceSpecOpts(config, order, ociFails))
    /\ UNCHANGED << static, cniQoSResource, update >>

GenerateContainerClass ==
    /\ call.pc = "idle"
    /\ \E config \in ContainerClassConfigs, ociFails \in BOOLEAN :
         \E order \in RangeOrders(config.class) :
            call' = Served("generateContainerClassResourceSpecOpts", config, ociFails,
                        generateContainerClassResourceSpecOpts(config, order, ociFails))
    /\ UNCHANGED << static, cniQoSResource, update >>

GenerateSandboxQoS ==
    /\ call.pc = "idle"
    /\ \E config \in SandboxQoSConfigs :
         \E order \in RangeOrders(config.qos) :
            call' = Served("generateSandboxQoSResourceSpecOpts", config, FALSE,
                        generateSandboxQoSResourceSpecOpts(config, order))
    /\ UNCHANGED << static, cniQoSResource, update >>

GenerateSandboxClass ==
    /\ call.pc = "idle"
    /\ \E config \in SandboxClassConfigs :
         \E order \in RangeOrders(config.class) :
            call' = Served("generateSandboxClassResourceSpecOpts", config, FALSE,
                        generateSandboxClassResourceSpecOpts(config, order))
    /\ UNCHANGED << static, cniQoSResource, update >>

\* generateCniQoSResourceOpts reads cniQoSResource once.
GenerateCniQoSResourceOpts ==
    /\ call.pc = "idle"
    /\ \E config \in SandboxQoSConfigs :
         call' = [Served("generateCniQoSResourceOpts", config, FALSE,
                         generateCniQoSResourceOpts(config))
                    EXCEPT !.seen = {cniQoSResource}]
    /\ UNCHANGED << static, cniQoSResource, update >>

ContainerQoSResourcesInfo ==
    /\ call.pc = "idle"
    /\ \E rl \in Listings(rdtClasses), bl \in Listings(blockioClasses) :
         call' = [Idle EXCEPT !.op = "GetContainerQoSResourcesInfo", !.pc = "done",
                              !.info = GetContainerQoSResourcesInfo(rl, bl)]
    /\ UNCHANGED << static, cniQoSResource, update >>

ContainerClassResourcesInfo ==
    /\ call.pc = "idle"
    /\ \E rl \in Listings(rdtClasses), bl \in Listings(blockioClasses) :
         call' = [Idle EXCEPT !.op = "GetContainerClassResourcesInfo", !.pc = "done",
                              !.info = GetContainerClassResourcesInfo(rl, bl)]
    /\ UNCHANGED << static, cniQoSResource, update >>

PodClassResourcesInfo ==
    /\ call.pc = "idle"
    /\ call' = [Idle EXCEPT !.op = "GetPodClassResourcesInfo", !.pc = "done",
                            !.info = GetPodClassResourcesInfo]
    /\ UNCHANGED << static, cniQoSResource, update >>

\* GetPodQoSResourcesInfo, "if len(cniQoSResource) > 0": the first read of
\* the registry.  With no class the dummy resources are all it returns.
PodQoSResourcesInfoLen ==
    /\ call.pc = "idle"
    /\ call' = IF Cardinality(DOMAIN cniQoSResource) > 0
               THEN [Idle EXCEPT !.op = "GetPodQoSResourcesInfo", !.pc = "range",
                                 !.seen = {cniQoSResource}]
               ELSE [Idle EXCEPT !.op = "GetPodQoSResourcesInfo", !.pc = "done",
                                 !.seen = {cniQoSResource},
                                 !.info = dummyPodQoSResourcesInfo]
    /\ UNCHANGED << static, cniQoSResource, update >>

\* GetPodQoSResourcesInfo, "for n, c := range cniQoSResource": the registry
\* is read again, with no lock held since the first read, and the net entry
\* is appended with the classes found now.
PodQoSResourcesInfoRange ==
    /\ call.pc = "range"
    /\ \E order \in RangeOrders(cniQoSResource) :
         call' = [call EXCEPT !.pc = "done",
                    !.info = << [Name |-> QoSResourceNet, Mutable |-> FALSE,
                                 Classes |-> NetClassInfos(cniQoSResource, order)] >>
                             \o dummyPodQoSResourcesInfo]
    /\ UNCHANGED << static, cniQoSResource, update >>

\* updateCniQoSResources, called when the CNI configuration is (re)loaded,
\* whatever request is being served.
UpdateCniQoSResources ==
    /\ \E netplugin \in NetPlugins :
         LET r == updateCniQoSResources(cniQoSResource, netplugin)
         IN /\ cniQoSResource' = r.registry
            /\ update' = [netplugin |-> netplugin, before |-> cniQoSResource,
                          err |-> r.err, called |-> TRUE]
            /\ call' = IF call.pc = "range"
                       THEN [call EXCEPT !.seen = @ \cup {r.registry}]
                       ELSE call
    /\ UNCHANGED static

\* The caller takes the result.
Return ==
    /\ call.pc = "done"
    /\ call' = Idle
    /\ UNCHANGED << static, cniQoSResource, update >>

\* Requests served with the CNI configuration never loaded.
Next ==
    \/ GenerateContainerQoS
    \/ GenerateContainerClass
    \/ GenerateSandboxQoS
    \/ GenerateSandboxClass
    \/ GenerateCniQoSResourceOpts
    \/ ContainerQoSResourcesInfo
    \/ ContainerClassResourcesInfo
    \/ Return

Spec == Init /\ [][Next]_vars

\* The pod-level functions with the CNI configuration reloaded at any time;
\* RDT and blockio, which they do not read, are left unconfigured.
InitNet ==
    /\ rdtEnabled = FALSE /\ rdtClasses = {}
    /\ blockioEnabled = FALSE /\ blockioClasses = {}
    /\ IgnoreRdtNotEnabledErrors = FALSE
    /\ IgnoreBlockIONotEnabledErrors = FALSE
    /\ cniQoSResource = EmptyMap
    /\ update = NoUpdate
    /\ call = Idle

NextNet ==
    \/ UpdateCniQoSResources
    \/ GenerateCniQoSResourceOpts
    \/ PodQoSResourcesInfoLen
    \/ PodQoSResourcesInfoRange
    \/ PodClassResourcesInfo
    \/ Return

SpecNet == InitNet /\ [][NextNet]_vars

\* A pod sandbox being set up and a container being created while the CNI
\* configuration is reloaded at any time: blockio is configured with one
\* class, RDT is not.
InitSwap ==
    /\ rdtEnabled = FALSE /\ rdtClasses = {}
    /\ blockioEnabled = TRUE /\ blockioClasses = {"gold"}
    /\ IgnoreRdtNotEnabledErrors = FALSE
    /\ IgnoreBlockIONotEnabledErrors = FALSE
    /\ cniQoSResource = EmptyMap
    /\ update = NoUpdate
    /\ call = Idle

NextSwap ==
    \/ UpdateCniQoSResources
    \/ GenerateCniQoSResourceOpts
    \/ GenerateContainerQoS
    \/ Return

SpecSwap == InitSwap /\ [][NextSwap]_vars

\* ------------------------------------------------------------- properties

ContainerOps == {"generateContainerQoSResourceSpecOpts",
                 "generateContainerClassResourceSpecOpts"}
SandboxOps == {"generateSandboxQoSResourceSpecOpts",
               "generateSandboxClassResourceSpecOpts"}
QoSOps == {"generateContainerQoSResourceSpecOpts",
           "generateSandboxQoSResourceSpecOpts", "generateCniQoSResourceOpts"}
DiscoveryOps == {"GetContainerQoSResourcesInfo", "GetContainerClassResourcesInfo",
                 "GetPodQoSResourcesInfo", "GetPodClassResourcesInfo"}
Legacy == {"rdt", "blockio"}

\* The structured assignments the served generator was given to validate.
Assignments == IF call.op \in QoSOps THEN call.config.qos ELSE call.config.class

\* The resources the level of the served generator knows, and their classes.
KnownClasses ==
    CASE call.op \in ContainerOps ->
           [d \in Legacy \cup DOMAIN dummyContainerQoSResources |->
              IF d = "rdt" THEN rdtClasses
              ELSE IF d = "blockio" THEN blockioClasses
              ELSE dummyContainerQoSResources[d]]
      [] call.op = "generateSandboxQoSResourceSpecOpts" -> dummyPodQoSResources
      [] call.op = "generateSandboxClassResourceSpecOpts" -> dummyPodClassResources
      [] call.op = "generateCniQoSResourceOpts" ->
           [d \in {"net"} |-> DOMAIN cniQoSResource]
      [] OTHER -> EmptyMap

\* The resources a structured assignment of the served request may name.
Recognised ==
    CASE call.op \in ContainerOps -> Legacy \cup DOMAIN dummyContainerQoSResources
      [] call.op = "generateSandboxQoSResourceSpecOpts" ->
           {"net"} \cup DOMAIN dummyPodQoSResources
      [] call.op = "generateSandboxClassResourceSpecOpts" ->
           DOMAIN dummyPodClassResources
      [] OTHER -> {}

IsEnabled(d) == IF d = "rdt" THEN rdtEnabled ELSE blockioEnabled
Ignored(d) == IF d = "rdt" THEN IgnoreRdtNotEnabledErrors
              ELSE IgnoreBlockIONotEnabledErrors
AnnotationOf(d) == IF d = "rdt" THEN call.config.rdtAnnotation
                   ELSE call.config.blockioAnnotation
Fragments(d) == {f \in Range(call.out.opts) : f[1] = d}
Rejected == call.out.err # NoError /\ call.out.opts = << >>

\* C1 - Fallback precedence: when the container request carries a structured
\* assignment for rdt or blockio, the class the generator resolves (the one
\* of the fragment it emits) is the structured one, whatever the annotations
\* say, and a structured class that is not configured fails the request.
C1_StructuredAssignmentWins ==
    \A d \in Legacy :
       (call.op \in ContainerOps /\ d \in DOMAIN Assignments) =>
          /\ \A f \in Fragments(d) : f[2] = Assignments[d]
          /\ (Assignments[d] # "" /\ IsEnabled(d)
                /\ Assignments[d] \notin KnownClasses[d]) => Rejected

\* C2 - Fail on unknown class: a request naming a non-empty class that is
\* not among the classes of a resource with a non-empty registry never
\* returns success.
C2_UnknownClassNeverSucceeds ==
    \A d \in DOMAIN Assignments \cap DOMAIN KnownClasses :
       (/\ call.op \in ContainerOps \cup SandboxOps \cup {"generateCniQoSResourceOpts"}
        /\ KnownClasses[d] # {}
        /\ Assignments[d] # ""
        /\ Assignments[d] \notin KnownClasses[d]) => call.out.err # NoError

\* No structured assignment and no annotation ask for a class of d.
NotRequested(d) ==
    /\ d \notin DOMAIN call.config.qos
    /\ d \notin DOMAIN call.config.class
    /\ AnnotationOf(d) = ""

\* C3 - Empty means absent: with no structured assignment and no annotation
\* for rdt (blockio), the class resolves to "" with no error, whether or
\* not the resource is enabled, and the generator neither fails on its
\* account nor emits a fragment for it.
C3_EmptyMeansAbsent ==
    call.op \in ContainerOps =>
       /\ NotRequested("rdt") =>
            /\ getContainerRdtClass(call.config) = [cls |-> "", err |-> NoError]
            /\ Fragments("rdt") = {}
            /\ call.out.err.resource # "rdt"
       /\ NotRequested("blockio") =>
            /\ getContainerBlockioClass(call.config) = [cls |-> "", err |-> NoError]
            /\ Fragments("blockio") = {}
            /\ call.out.err.resource # "blockio"

\* C3 happens: nothing asks for an RDT class, RDT is not enabled, and the
\* request succeeds with the blockio fragment alone.
C3_Witness ==
    /\ call.op \in ContainerOps
    /\ NotRequested("rdt")
    /\ ~rdtEnabled /\ ~IgnoreRdtNotEnabledErrors
    /\ call.out.err = NoError
    /\ call.out.opts = << <<"blockio", "gold">> >>

\* The result of the served call is the one computed on a single registry
\* among those that were in place during the call.
SeesOneRegistry ==
    CASE call.op = "generateCniQoSResourceOpts" ->
           \E r \in call.seen : call.out = CniQoSResourceOpts(r, call.config)
      [] call.op = "GetPodQoSResourcesInfo" ->
           \E r \in call.seen : \E o \in RangeOrders(r) :
              call.info = PodQoSResourcesInfo(r, o)
      [] OTHER -> TRUE

\* C4 - Atomic registry swap: a generateCniQoSResourceOpts or
\* GetPodQoSResourcesInfo call that runs while updateCniQoSResources replaces
\* the registry returns what it would return on the entirely old or on the
\* entirely new registry.
C4_AtomicRegistrySwap == call.pc = "done" => SeesOneRegistry

\* C5 - Reconfiguration failure is non-destructive: when
\* updateCniQoSResources returns an error, cniQoSResource is what it was
\* before the call.
C5_FailedUpdateKeepsRegistry ==
    (update.called /\ update.err # NoError) => cniQoSResource = update.before

\* C5 happens: a source that does not parse is given while two classes are
\* registered, and both are still there.
C5_Witness ==
    /\ update.called
    /\ update.err.kind = "ConfigParseError"
    /\ DOMAIN update.before = {"gold", "silver"}
    /\ DOMAIN cniQoSResource = {"gold", "silver"}

\* C6 - Discovery omits empty domains: no entry a discovery function
\* returns has an empty class list.
C6_NoEmptyDomainReported ==
    (call.pc = "done" /\ call.op \in DiscoveryOps) =>
       \A i \in DOMAIN call.info : Len(call.info[i].Classes) > 0

\* C7 - Empty class name is reported as such: a request with a structured
\* assignment (d, "") for a resource d its level knows is rejected with the
\* EmptyClassName error.
C7_EmptyClassNameReported ==
    \A d \in DOMAIN Assignments \cap Recognised :
       (call.op \in ContainerOps \cup SandboxOps /\ Assignments[d] = "") =>
          (Rejected /\ call.out.err.kind = "EmptyClassName")

\* The resources of the served request that no switch case and no registry
\* of its level knows.
UnknownDomains ==
    IF call.op \in ContainerOps \cup SandboxOps
    THEN DOMAIN Assignments \ Recognised ELSE {}

\* Every assignment of the served request other than that of d is valid.
OthersValid(d) ==
    \A e \in DOMAIN Assignments \ {d} :
       /\ e \in Recognised
       /\ Assignments[e] # ""
       /\ (e \notin Legacy \cup {"net"}) => Assignments[e] \in KnownClasses[e]

\* C8, as claimed - a request mentioning a resource its level does not know
\* is rejected with the UnknownDomain error whatever its other assignments.
C8_UnknownDomainReported ==
    UnknownDomains # {} => (Rejected /\ call.out.err.kind = "UnknownDomain")

\* C8, amended - a request mentioning a resource its level does not know is
\* rejected, with no options, whatever the class, the other assignments, the
\* annotations and the flags; the error is the UnknownDomain error of that
\* resource when no other assignment of the request is invalid.
C8_UnknownDomainRejected ==
    \A d \in UnknownDomains :
       /\ Rejected
       /\ OthersValid(d) => call.out.err = Errorf("UnknownDomain", d, Assignments[d])

\* C8 happens: a container request with a valid RDT assignment and one for
\* a resource nobody knows, both ignore flags set, is rejected.
C8_Witness ==
    /\ call.op = "generateContainerQoSResourceSpecOpts"
    /\ call.config.qos = [d \in {"rdt", "bogus"} |-> "gold"]
    /\ IgnoreRdtNotEnabledErrors /\ IgnoreBlockIONotEnabledErrors
    /\ call.out.err = Errorf("UnknownDomain", "bogus", "gold")

\* C9 - All-or-nothing result: a generator that returns an error returns no
\* options with it.
C9_AllOrNothing ==
    (/\ call.op \in ContainerOps \cup SandboxOps \cup {"generateCniQoSResourceOpts"}
     /\ call.out.err # NoError) => call.out.opts = << >>

\* C9 happens: the RDT class of the request resolves and would give a
\* fragment, and the blockio part of the same request then fails.
C9_Witness ==
    /\ call.op \in ContainerOps
    /\ getContainerRdtClass(call.config).err = NoError
    /\ getContainerRdtClass(call.config).cls # ""
    /\ call.out.err.resource = "blockio"
    /\ call.out.err.kind \in {"UnknownClass", "TranslationError"}

\* The served request asks for a class of the legacy resource d: by a
\* structured assignment, or with none by an annotation.
Requested(d) ==
    \/ d \in DOMAIN Assignments /\ Assignments[d] # ""
    \/ /\ d \notin DOMAIN call.config.qos
       /\ d \notin DOMAIN call.config.class
       /\ AnnotationOf(d) \notin {"", InvalidAnnotation}

\* The served request with nothing asking for a class of d.
Without(d) ==
    LET drop(m) == [e \in DOMAIN m \ {d} |-> m[e]]
        c == [call.config EXCEPT !.qos = drop(@), !.class = drop(@)]
    IN IF d = "rdt" THEN [c EXCEPT !.rdtAnnotation = ""]
       ELSE [c EXCEPT !.blockioAnnotation = ""]

\* What the served generator may return for a request.
Outcomes(config) ==
    IF call.op = "generateContainerQoSResourceSpecOpts"
    THEN {generateContainerQoSResourceSpecOpts(config, o, call.ociFails) :
            o \in RangeOrders(config.qos)}
    ELSE {generateContainerClassResourceSpecOpts(config, o, call.ociFails) :
            o \in RangeOrders(config.class)}

\* C10 - Downgrade means skip-and-continue: a container request for a class
\* of a disabled legacy resource whose ignore flag is set gets no fragment
\* for it and otherwise the result of the request without it; with the flag
\* not set the request is rejected.
C10_DowngradeSkipsAndContinues ==
    \A d \in Legacy :
       (call.op \in ContainerOps /\ Requested(d) /\ ~IsEnabled(d)) =>
          IF Ignored(d)
          THEN /\ Fragments(d) = {}
               /\ call.out \in Outcomes(Without(d))
          ELSE Rejected

\* What resolving the class of the legacy resource d returns for the served
\* request.
Resolution(d) ==
    IF d = "rdt" THEN getContainerRdtClass(call.config)
    ELSE getContainerBlockioClass(call.config)

\* C11 - Only "domain disabled" is downgradable: a container request whose
\* rdt or blockio resolution fails with an unknown class or with an error of
\* the annotation parser is rejected, whatever the ignore flags and whether
\* or not the resource is enabled.
C11_OnlyDisabledDowngraded ==
    \A d \in Legacy :
       (/\ call.op \in ContainerOps
        /\ Resolution(d).err.kind \in {"UnknownClass", "AnnotationError"})
          => Rejected

\* What the served generator may return for the served request, over the
\* orders in which the range statement may visit its classes map.
Reruns ==
    CASE call.op \in ContainerOps -> Outcomes(call.config)
      [] call.op = "generateSandboxQoSResourceSpecOpts" ->
           {generateSandboxQoSResourceSpecOpts(call.config, o) :
              o \in RangeOrders(call.config.qos)}
      [] call.op = "generateSandboxClassResourceSpecOpts" ->
           {generateSandboxClassResourceSpecOpts(call.config, o) :
              o \in RangeOrders(call.config.class)}
      [] OTHER -> {call.out}

\* C12 - Reproducible errors: with the request, the registries, the
\* enablement and the flags fixed, every run of a sandbox or container
\* generator returns the same options and the same error.
C12_ReproducibleOutcome ==
    call.op \in ContainerOps \cup SandboxOps => Reruns = {call.out}

\* The "qos" object of the configuration the last update was given: its
\* classes, none when the key is absent.
ParsedQos ==
    LET source == update.netplugin.Networks[2].Source
    IN IF source.hasQos THEN source.qos ELSE EmptyMap

\* The served call read the registry when it held no class.
ServedOnEmptyRegistry == call.pc = "done" /\ call.seen = {EmptyMap}

\* C13 - Wholesale replacement on success: after updateCniQoSResources
\* returns no error the registry is exactly the "qos" object of the parsed
\* configuration, empty when the key is absent; a discovery call served on
\* the empty registry reports no net entry, and a request for a net class
\* served on it fails with the unknown-class error.
C13_WholesaleReplacement ==
    /\ (update.called /\ update.err = NoError) => cniQoSResource = ParsedQos
    /\ (ServedOnEmptyRegistry /\ call.op = "GetPodQoSResourcesInfo") =>
          \A i \in DOMAIN call.info : call.info[i].Name # QoSResourceNet
    /\ (/\ ServedOnEmptyRegistry /\ call.op = "generateCniQoSResourceOpts"
        /\ QoSResourceNet \in DOMAIN call.config.qos) =>
          /\ Rejected
          /\ call.out.err = Errorf("UnknownClass", QoSResourceNet,
                                   call.config.qos[QoSResourceNet])

\* C13 happens: two classes were registered, a configuration without the
\* "qos" key is loaded with no error, and the request for one of the two
\* classes served next fails.
C13_Witness ==
    /\ update.called /\ update.err = NoError
    /\ DOMAIN update.before = {"gold", "silver"}
    /\ ~update.netplugin.Networks[2].Source.hasQos
    /\ cniQoSResource = EmptyMap
    /\ ServedOnEmptyRegistry /\ call.op = "generateCniQoSResourceOpts"
    /\ QoSResourceNet \in DOMAIN call.config.qos
    /\ call.config.qos[QoSResourceNet] = "gold"
    /\ call.out.err.kind = "UnknownClass"

\* The classes map in which the getter of the legacy resource d looks for a
\* structured assignment.
GetterMap(d) == IF d = "rdt" THEN call.config.class ELSE call.config.qos

\* The getter of d has a candidate class: the structured assignment, or with
\* none what the annotation parser returns when it returns no error.
HasCandidate(d) == d \in DOMAIN GetterMap(d) \/ AnnotationOf(d) # InvalidAnnotation
Candidate(d) == IF d \in DOMAIN GetterMap(d) THEN GetterMap(d)[d] ELSE AnnotationOf(d)

ClassesOf(d) == IF d = "rdt" THEN rdtClasses ELSE blockioClasses

\* C14 - Enablement is checked before existence: getContainerRdtClass and
\* getContainerBlockioClass return the "disabled" error for a non-empty
\* candidate of a disabled resource, the "invalid class" error only for an
\* enabled resource that has no such class, and the empty class with no
\* error, neither check made, for an empty candidate.
C14_EnablementBeforeExistence ==
    \A d \in Legacy :
       call.op \in ContainerOps =>
          /\ (HasCandidate(d) /\ Candidate(d) # "" /\ ~IsEnabled(d)) =>
                Resolution(d) = [cls |-> "",
                                 err |-> Errorf("DomainDisabled", d, Candidate(d))]
          /\ Resolution(d).err.kind = "UnknownClass" =>
                /\ IsEnabled(d)
                /\ HasCandidate(d) /\ Candidate(d) \notin ClassesOf(d)
          /\ (HasCandidate(d) /\ Candidate(d) = "") =>
                Resolution(d) = [cls |-> "", err |-> NoError]

\* C14 happens: a container request assigns a blockio class while blockio
\* is disabled and not ignored, and is rejected with the "disabled" error.
C14_Witness ==
    /\ call.op = "generateContainerQoSResourceSpecOpts"
    /\ QoSResourceBlockio \in DOMAIN call.config.qos
    /\ call.config.qos[QoSResourceBlockio] = "gold"
    /\ ~blockioEnabled /\ ~IgnoreBlockIONotEnabledErrors
    /\ call.out = ReturnNilErr(<< >>, Errorf("DomainDisabled", "blockio", "gold"))

\* The served container request passes the validation of its classes map
\* and the RDT step, so that the blockio step is reached.
ReachesBlockIO ==
    /\ \A d \in DOMAIN call.config.qos :
          RangeBody(d, call.config.qos[d], {QoSResourceRdt, QoSResourceBlockio},
                    dummyContainerQoSResources) = NoError
    /\ HandleRdt(<< >>, call.config).err = NoError

\* C15 - No stale translation across a swap.  For net: the result of
\* generateCniQoSResourceOpts is built from the registry as it is when the
\* class is translated: the unknown-class error when the class is not in it,
\* no option and no error when the class has no bandwidth, else the
\* bandwidth the registry gives now.  For blockio: when the class resolved
\* and blockIOToLinuxOci fails, the request is rejected with that error and
\* no blockio fragment.
C15_NoStaleTranslation ==
    /\ (/\ call.op = "generateCniQoSResourceOpts" /\ call.pc = "done"
        /\ QoSResourceNet \in DOMAIN call.config.qos) =>
          \A registry \in call.seen :
             LET netCls == call.config.qos[QoSResourceNet]
             IN IF netCls \notin DOMAIN registry
                THEN call.out = ReturnNilErr(<< >>,
                                   Errorf("UnknownClass", QoSResourceNet, netCls))
                ELSE IF registry[netCls].BandWidth = "nil"
                THEN call.out = ReturnOpts(<< >>)
                ELSE call.out =
                       ReturnOpts(<< <<"bandwidth", registry[netCls].BandWidth>> >>)
    /\ (/\ call.op = "generateContainerQoSResourceSpecOpts" /\ call.pc = "done"
        /\ ReachesBlockIO
        /\ Resolution("blockio").err = NoError /\ Resolution("blockio").cls # ""
        /\ call.ociFails) =>
          /\ call.out = ReturnNilErr(<< >>, Errorf("TranslationError", "blockio",
                                                   Resolution("blockio").cls))
          /\ Fragments("blockio") = {}

\* C15 happens: class gold had a bandwidth, the reloaded configuration no
\* longer defines it, and the request for it translated on the new registry
\* fails with the unknown-class error.
C15_Witness ==
    /\ update.called /\ update.err = NoError
    /\ "gold" \in DOMAIN update.before
    /\ update.before["gold"].BandWidth = "10M"
    /\ "gold" \notin DOMAIN cniQoSResource
    /\ call.op = "generateCniQoSResourceOpts" /\ call.pc = "done"
    /\ call.seen = {cniQoSResource}
    /\ QoSResourceNet \in DOMAIN call.config.qos
    /\ call.config.qos[QoSResourceNet] = "gold"
    /\ call.out = ReturnNilErr(<< >>, Errorf("UnknownClass", QoSResourceNet, "gold"))

====
